---- MODULE Spec2Model ----
(***************************************************************************)
(* The notebook                                                            *)
(* examples/05_Scalable_GP_Regression_Multidimensional/                    *)
(*   KISSGP_Additive_Regression_CUDA.ipynb                                 *)
(*                                                                         *)
(* Spec is one run of the notebook as a sequential program: the data cell, *)
(* the model cell, the training cell and the evaluation cell, one action   *)
(* per statement or loop body.  The tensors are part of the state, so the  *)
(* run is explored with the grid sizes RunTrainN and RunTestN in place of  *)
(* the notebook's n = 100 and n = 10.                                      *)
(*                                                                         *)
(* GridSpec applies the loop bodies and the target expression to one grid  *)
(* point at a time, for every point of the notebook's own grids            *)
(* (TrainN = 100, TestN = 10).                                             *)
(*                                                                         *)
(* Tensors are functions from row index to a function from column index.   *)
(* A coordinate float(i)/(n-1) is kept as the reduced fraction <<num,den>> *)
(* of the real number it rounds: float32 rounding is injective on the      *)
(* multiples of 1/99 and of 1/9 in [0,1], so two stored coordinates are    *)
(* equal exactly when their reduced fractions are.  sin, cos and 2*pi are  *)
(* evaluated in fixed point with Scale units per 1.0.                      *)
(*                                                                         *)
(* The gpytorch and torch calls are library code outside the notebook.     *)
(* The model keeps what the notebook can observe of them: the parameters   *)
(* as the number of optimizer steps applied, the gradient buffer as the    *)
(* set of backward passes accumulated in it, the train/eval mode flags,    *)
(* the toeplitz setting, and the loss of each parameter version as the     *)
(* notebook's recorded output printed it.  A forward, loss, backward or    *)
(* step call may raise instead of returning.                               *)
(***************************************************************************)
EXTENDS Integers, Sequences, FiniteSets

VARIABLES
    pc,            \* statement about to run
    n,             \* the notebook's global n
    i,             \* the notebook's global loop variable i (next value)
    j,             \* the notebook's global loop variable j (next value)
    train_x,       \* training inputs
    train_y,       \* training targets
    writes,        \* history: how often the data loop assigned each row
    test_x,        \* evaluation inputs
    test_y_actual, \* evaluation reference values
    model_mode,    \* model.training: "none" before construction
    lik_mode,      \* likelihood.training
    toeplitz,      \* gpytorch.settings.use_toeplitz state
    steps,         \* parameter version: optimizer steps applied
    grad,          \* backward passes accumulated in the .grad buffers
    output,        \* result of model(train_x): << >> or <<record>>
    loss,          \* last loss, in thousandths
    printed,       \* lines printed by the training loop
    step_grads,    \* history: gradient buffer consumed by each step
    calls,         \* history: <<iteration, call>> of the loop's calls
    raised,        \* << >> or <<[iter, call]>> of the call that raised
    observed_pred, \* << >> or <<record>> of likelihood(model(test_x))
    log_outputscale, \* the model's registered parameter, in fixed point
    pred_labels,   \* predicted means, reshaped to n x n
    delta_y,       \* absolute error surface
    point          \* GridSpec: the grid point a loop body was applied to

loopVars == <<n, i, j>>
dataVars == <<train_x, train_y, writes>>
testVars == <<test_x, test_y_actual>>
trainVars == <<steps, grad, output, loss, printed, step_grads, calls, raised>>
modeVars == <<model_mode, lik_mode, toeplitz>>

evalVars == <<pred_labels, delta_y>>

runVars == <<pc, loopVars, dataVars, testVars, modeVars, trainVars, observed_pred,
             log_outputscale, evalVars>>

vars == <<runVars, point, log_outputscale, evalVars>>

\* Units per 1.0 of the fixed-point arithmetic.
Scale == 1000

\* Grid sizes of the explored run, in place of n = 100 and n = 10.
RunTrainN == 4

RunTestN == 3

\* Largest error of a predicted mean, in fixed-point units.
MaxErr == 2

\* n = 100 of the data cell
TrainN == 100

\* n = 10 of the evaluation cell
TestN == 10

num_iter == 20

----------------------------------------------------------------------------
\* Arithmetic

RECURSIVE GCD(_, _)
GCD(a, b) == IF b = 0 THEN a ELSE GCD(b, a % b)

\* float(a) / b for a >= 0, b > 0
FloatDiv(a, b) == LET g == GCD(a, b) IN <<a \div g, b \div g>>

Zero == <<0, 1>>

\* the coordinate float(k) / (m-1)
Coord_fromOne(k, m) == FloatDiv(k + 1, m - 1)

Coord_denominatorN(k, m) == FloatDiv(k, m)

Coord(k, m) == FloatDiv(k, m - 1)

\* fixed-point value of a stored coordinate
Fx(q) == (q[1] * Scale) \div q[2]

Mul(a, b) == (a * b) \div Scale

\* 2 * math.pi
TwoPi == (62832 * Scale) \div 10000

\* torch.sin on [0, 1]
Sin(x) ==
    LET x2 == Mul(x, x)
        x3 == Mul(x2, x)
        x5 == Mul(x3, x2)
        x7 == Mul(x5, x2)
    IN x - (x3 \div 6) + (x5 \div 120) - (x7 \div 5040)

\* torch.cos on [0, 1]
Cos(x) ==
    LET x2 == Mul(x, x)
        x4 == Mul(x2, x2)
        x6 == Mul(x4, x2)
    IN Scale - (x2 \div 2) + (x4 \div 24) - (x6 \div 720)

\* (torch.sin(x[:, 0]) + torch.cos(x[:, 1])) * (2 * math.pi), one row
Target(row) == Mul(Sin(Fx(row[0])) + Cos(Fx(row[1])), TwoPi)

\* the vectorised expression: one entry per row of x
Targets_dropLast(x) ==
    [r \in (DOMAIN x) \ {Cardinality(DOMAIN x) - 1} |-> Target(x[r])]

Targets(x) == [r \in DOMAIN x |-> Target(x[r])]

\* y = sin(x0) + 2*pi*cos(x1), as the notebook documents the function
Documented(row) == Sin(Fx(row[0])) + Mul(TwoPi, Cos(Fx(row[1])))

----------------------------------------------------------------------------
\* Tensors and the grid loops

\* torch.zeros(rows, cols)
zeros(rows, cols) == [r \in 0..(rows - 1) |-> [c \in 0..(cols - 1) |-> Zero]]

\* the row index i * n + j
RowIndex_stride(a, b, m) == a * (m - 1) + b

RowIndex(a, b, m) == a * m + b

\* the two assignments of a loop body to its row:
\* [0] = float(i) / (n-1); [1] = float(j) / (n-1)
AssignRow(row, a, b, m) == [row EXCEPT ![0] = Coord(a, m), ![1] = Coord(b, m)]

NoCount == [r \in {} |-> 0]

\* (torch.sin(test_x[:, 0]) + torch.cos(test_x[:, 1])) * (2 * math.pi), one row
TestTarget_documented(row) == Sin(Fx(row[0])) + Mul(TwoPi, Cos(Fx(row[1])))

TestTarget(row) == Mul(Sin(Fx(row[0])) + Cos(Fx(row[1])), TwoPi)

\* observed_pred.mean(): the library's predicted mean of each row of x, the
\* true value of the row off by e, upwards on even rows and downwards on odd
PredMean(x, e) ==
    [r \in DOMAIN x |-> TestTarget(x[r]) + (IF r % 2 = 0 THEN e ELSE 0 - e)]

\* v.view(m, m): row-major
View(v, m) == [a \in 0..(m - 1) |-> [b \in 0..(m - 1) |-> v[a * m + b]]]

\* numpy v.reshape(m, m): row-major (order 'C')
Reshape_columnMajor(v, m) == [a \in 0..(m - 1) |-> [b \in 0..(m - 1) |-> v[b * m + a]]]

Reshape(v, m) == [a \in 0..(m - 1) |-> [b \in 0..(m - 1) |-> v[a * m + b]]]

Abs(v) == IF v < 0 THEN 0 - v ELSE v

\* numpy.absolute(p - q), elementwise on two matrices of p's shape
AbsDiff(p, q) == [a \in DOMAIN p |-> [b \in DOMAIN p[a] |-> Abs(p[a][b] - q[a][b])]]

----------------------------------------------------------------------------
\* The training cell's recorded output, lines "Iter k/20 - Loss: ..."
\* in thousandths: entry k is the loss printed at iteration k.
RecordedLoss ==
    << 924, 825, 726, 626, 527, 429, 330, 230, 131, 32,
       -66, -166, -263, -362, -460, -559, -657, -753, -849, -945 >>

\* mll(output, train_y) for the output of parameter version v
mll(v) == 0 - RecordedLoss[v + 1]

\* loss = -mll(output, train_y)
NegMll_unnegated(out) == mll(out.params)

NegMll(out) == 0 - mll(out.params)

\* torch.Tensor([0]), the value log_outputscale is registered with
log_outputscale_initial == 0

\* lr=0.2 of the Adam optimizer
lr == (2 * Scale) \div 10

\* the terms x^k / k! from the given one on, summed until they vanish
RECURSIVE ExpTerms(_, _, _)
ExpTerms(x, term, k) ==
    IF term = 0 THEN 0 ELSE term + ExpTerms(x, Mul(term, x) \div k, k + 1)

\* exp(x) of the fixed-point number x
RECURSIVE Exp(_)
Exp(x) == IF x < 0 THEN (Scale * Scale) \div Exp(0 - x) ELSE ExpTerms(x, Scale, 1)

\* self.mean_module = ConstantMean(); mean_module(x)
mean_module(x) == [module |-> "ConstantMean", x |-> x]

\* self.base_covar_module = RBFKernel(); self.covar_module =
\* AdditiveGridInterpolationKernel(base_covar_module, grid_size=400,
\* grid_bounds=[(0, 1)], n_components=2); covar_module(x), an unscaled output
covar_module(x) ==
    [module |-> "AdditiveGridInterpolationKernel", base |-> "RBFKernel",
     n_components |-> 2, x |-> x, scale |-> Scale]

\* covar.mul(factor)
mul(covar, factor) == [covar EXCEPT !.scale = Mul(covar.scale, factor)]

\* GPRegressionModel.forward(x)
forward_noExp(x) ==
    LET mean_x == mean_module(x)
        covar_x == mul(covar_module(x), log_outputscale)
    IN [mean |-> mean_x, covar |-> covar_x]

forward(x) ==
    LET mean_x == mean_module(x)
        covar_x == mul(covar_module(x), Exp(log_outputscale))
    IN [mean |-> mean_x, covar |-> covar_x]

\* grid_bounds=[(0, 1)] of the AdditiveGridInterpolationKernel
grid_bounds == <<0, 1>>

\* the library calls of the loop that can raise
Raising == {"forward", "loss", "backward", "step"}

NoPoint == [cell |-> "none", i |-> 0, j |-> 0, idx |-> 0, x |-> zeros(1, 2)[0], y |-> 0]

----------------------------------------------------------------------------
Init ==
    /\ pc = "data_alloc"
    /\ n = 0
    /\ i = 0
    /\ j = 0
    /\ train_x = zeros(0, 2)
    /\ train_y = NoCount
    /\ writes = NoCount
    /\ test_x = zeros(0, 2)
    /\ test_y_actual = NoCount
    /\ model_mode = "none"
    /\ lik_mode = "none"
    /\ toeplitz = "default"
    /\ steps = 0
    /\ grad = {}
    /\ output = << >>
    /\ loss = 0
    /\ printed = << >>
    /\ step_grads = << >>
    /\ calls = << >>
    /\ raised = << >>
    /\ observed_pred = << >>
    /\ log_outputscale = 0
    /\ pred_labels = << >>
    /\ delta_y = << >>
    /\ point = NoPoint

\* n = 100; train_x = torch.zeros(pow(n, 2), 2)
DataAlloc ==
    /\ pc = "data_alloc"
    /\ n' = RunTrainN
    /\ train_x' = zeros(RunTrainN * RunTrainN, 2)
    /\ writes' = [r \in 0..(RunTrainN * RunTrainN - 1) |-> 0]
    /\ i' = 0
    /\ j' = 0
    /\ pc' = "data_loop"
    /\ UNCHANGED <<train_y, testVars, modeVars, trainVars, observed_pred, point, log_outputscale, evalVars>>

\* body of for i in range(n): for j in range(n):
DataLoopBody ==
    /\ pc = "data_loop"
    /\ i < n
    /\ LET r == RowIndex(i, j, n) IN
        /\ train_x' = [train_x EXCEPT ![r] = AssignRow(@, i, j, n)]
        /\ writes' = [writes EXCEPT ![r] = @ + 1]
    /\ IF j + 1 < n
         THEN j' = j + 1 /\ i' = i
         ELSE j' = 0 /\ i' = i + 1
    /\ UNCHANGED <<pc, n, train_y, testVars, modeVars, trainVars, observed_pred, point, log_outputscale, evalVars>>

\* loop exit; train_x = Variable(train_x).cuda(); train_y = Variable(...).cuda()
DataTargets ==
    /\ pc = "data_loop"
    /\ i >= n
    /\ train_y' = Targets(train_x)
    /\ pc' = "model_init"
    /\ UNCHANGED <<loopVars, train_x, writes, testVars, modeVars, trainVars,
                   observed_pred, point, log_outputscale, evalVars>>

\* likelihood = GaussianLikelihood().cuda(); model = GPRegressionModel(...).cuda()
\* a freshly constructed module is in training mode
ModelInit ==
    /\ pc = "model_init"
    /\ model_mode' = "train"
    /\ lik_mode' = "train"
    /\ steps' = 0
    /\ log_outputscale' = log_outputscale_initial
    /\ grad' = {}
    /\ pc' = "train_mode"
    /\ UNCHANGED <<loopVars, dataVars, testVars, toeplitz, output, loss, printed,
                   step_grads, calls, raised, observed_pred, point, evalVars>>

\* model.train(); likelihood.train()
TrainMode ==
    /\ pc = "train_mode"
    /\ model_mode' = "train"
    /\ lik_mode' = "train"
    /\ pc' = "optimizer"
    /\ UNCHANGED <<loopVars, dataVars, testVars, toeplitz, trainVars, observed_pred, point, log_outputscale, evalVars>>

\* optimizer = Adam(...); num_iter = 20; mll = ExactMarginalLogLikelihood(...)
MakeOptimizer ==
    /\ pc = "optimizer"
    /\ pc' = "with_enter"
    /\ UNCHANGED <<loopVars, dataVars, testVars, modeVars, trainVars, observed_pred, point, log_outputscale, evalVars>>

\* with gpytorch.settings.use_toeplitz(False): for i in range(num_iter):
WithEnter ==
    /\ pc = "with_enter"
    /\ toeplitz' = "off"
    /\ i' = 0
    /\ pc' = "loop_test"
    /\ UNCHANGED <<n, j, dataVars, testVars, model_mode, lik_mode, trainVars,
                   observed_pred, point, log_outputscale, evalVars>>

\* the range(num_iter) test: another iteration, or leave the loop and the with block
LoopTest_oneShort ==
    /\ pc = "loop_test"
    /\ IF i < num_iter - 1
         THEN pc' = "zero_grad" /\ UNCHANGED toeplitz
         ELSE pc' = "eval_mode" /\ toeplitz' = "default"
    /\ UNCHANGED <<loopVars, dataVars, testVars, model_mode, lik_mode, trainVars,
                   observed_pred, point, log_outputscale, evalVars>>

LoopTest_staysInside ==
    /\ pc = "loop_test"
    /\ IF i < num_iter
         THEN pc' = "zero_grad" /\ UNCHANGED toeplitz
         ELSE pc' = "eval_mode" /\ UNCHANGED toeplitz
    /\ UNCHANGED <<loopVars, dataVars, testVars, model_mode, lik_mode, trainVars,
                   observed_pred, point, log_outputscale, evalVars>>

LoopTest ==
    /\ pc = "loop_test"
    /\ IF i < num_iter
         THEN pc' = "zero_grad" /\ UNCHANGED toeplitz
         ELSE pc' = "eval_mode" /\ toeplitz' = "default"
    /\ UNCHANGED <<loopVars, dataVars, testVars, model_mode, lik_mode, trainVars,
                   observed_pred, point, log_outputscale, evalVars>>

\* the statements of the loop body, in the order the source has them
LoopBody_stepBeforePrint == <<"zero_grad", "forward", "loss", "backward", "step", "print">>

LoopBody == <<"zero_grad", "forward", "loss", "backward", "print", "step">>

\* the statement control reaches after statement p of the body: the next
\* statement, or the range test after the last one
Following(p) ==
    LET k == CHOOSE q \in DOMAIN LoopBody : LoopBody[q] = p
    IN IF k < Len(LoopBody) THEN LoopBody[k + 1] ELSE "loop_test"

\* the loop index after statement p: the last statement ends the iteration
IndexAfter(p) == IF Following(p) = "loop_test" THEN i + 1 ELSE i

\* optimizer.zero_grad()
ZeroGrad_keeps ==
    /\ pc = "zero_grad"
    /\ grad' = grad
    /\ calls' = Append(calls, <<i + 1, "zero_grad">>)
    /\ pc' = Following("zero_grad")
    /\ UNCHANGED <<loopVars, dataVars, testVars, modeVars, steps, output, loss,
                   printed, step_grads, raised, observed_pred, point, log_outputscale, evalVars>>

ZeroGrad ==
    /\ pc = "zero_grad"
    /\ grad' = {}
    /\ calls' = Append(calls, <<i + 1, "zero_grad">>)
    /\ pc' = Following("zero_grad")
    /\ UNCHANGED <<loopVars, dataVars, testVars, modeVars, steps, output, loss,
                   printed, step_grads, raised, observed_pred, point, log_outputscale, evalVars>>

\* output = model(train_x)
Forward ==
    /\ pc = "forward"
    /\ output' = <<[params |-> steps, model_mode |-> model_mode, toeplitz |-> toeplitz,
                     dist |-> forward(train_x)]>>
    /\ calls' = Append(calls, <<i + 1, "forward">>)
    /\ pc' = Following("forward")
    /\ UNCHANGED <<loopVars, dataVars, testVars, modeVars, steps, grad, loss,
                   printed, step_grads, raised, observed_pred, point, log_outputscale, evalVars>>

\* loss = -mll(output, train_y)
Loss ==
    /\ pc = "loss"
    /\ loss' = NegMll(output[1])
    /\ calls' = Append(calls, <<i + 1, "loss">>)
    /\ pc' = Following("loss")
    /\ UNCHANGED <<loopVars, dataVars, testVars, modeVars, steps, grad, output,
                   printed, step_grads, raised, observed_pred, point, log_outputscale, evalVars>>

\* loss.backward(): adds this pass's gradient to the buffers
Backward ==
    /\ pc = "backward"
    /\ grad' = grad \cup {i + 1}
    /\ calls' = Append(calls, <<i + 1, "backward">>)
    /\ pc' = Following("backward")
    /\ UNCHANGED <<loopVars, dataVars, testVars, modeVars, steps, output, loss,
                   printed, step_grads, raised, observed_pred, point, log_outputscale, evalVars>>

\* print('Iter %d/%d - Loss: %.3f' % (i + 1, num_iter, loss.data[0]))
PrintLine ==
    /\ pc = "print"
    /\ printed' = Append(printed, [iter |-> i + 1, total |-> num_iter, loss |-> loss])
    /\ calls' = Append(calls, <<i + 1, "print">>)
    /\ i' = IndexAfter("print")
    /\ pc' = Following("print")
    /\ UNCHANGED <<n, j, dataVars, testVars, modeVars, steps, grad, output, loss,
                   step_grads, raised, observed_pred, point, log_outputscale, evalVars>>

\* optimizer.step(); Adam moves a parameter by at
\* most about lr a step, in either direction
Step ==
    /\ pc = "step"
    /\ steps' = steps + 1
    /\ \E d \in {0 - lr, 0, lr} : log_outputscale' = log_outputscale + d
    /\ step_grads' = Append(step_grads, grad)
    /\ calls' = Append(calls, <<i + 1, "step">>)
    /\ i' = IndexAfter("step")
    /\ pc' = Following("step")
    /\ UNCHANGED <<n, j, dataVars, testVars, modeVars, grad, output, loss,
                   printed, raised, observed_pred, point, evalVars>>

\* where control goes when a call raises: nothing catches it
AfterRaise_retry == pc

AfterRaise == "raised"

\* a library call of the loop raises: the exception leaves the with block
\* (which restores the setting) and ends the run
Raises ==
    /\ pc \in Raising
    /\ raised' = <<[iter |-> i + 1, call |-> pc]>>
    /\ calls' = Append(calls, <<i + 1, pc>>)
    /\ toeplitz' = "default"
    /\ pc' = AfterRaise
    /\ UNCHANGED <<loopVars, dataVars, testVars, model_mode, lik_mode, steps, grad,
                   output, loss, printed, step_grads, observed_pred, point, log_outputscale, evalVars>>

\* model.eval(); likelihood.eval()
EvalMode_modelOnly ==
    /\ pc = "eval_mode"
    /\ model_mode' = "eval"
    /\ lik_mode' = lik_mode
    /\ pc' = "test_alloc"
    /\ UNCHANGED <<loopVars, dataVars, testVars, toeplitz, trainVars, observed_pred, point, log_outputscale, evalVars>>

EvalMode ==
    /\ pc = "eval_mode"
    /\ model_mode' = "eval"
    /\ lik_mode' = "eval"
    /\ pc' = "test_alloc"
    /\ UNCHANGED <<loopVars, dataVars, testVars, toeplitz, trainVars, observed_pred, point, log_outputscale, evalVars>>

\* n = 10; test_x = Variable(torch.zeros(int(pow(n, 2)), 2)).cuda()
TestAlloc ==
    /\ pc = "test_alloc"
    /\ n' = RunTestN
    /\ test_x' = zeros(RunTestN * RunTestN, 2)
    /\ i' = 0
    /\ j' = 0
    /\ pc' = "test_loop"
    /\ UNCHANGED <<dataVars, test_y_actual, modeVars, trainVars, observed_pred, point, log_outputscale, evalVars>>

\* body of for i in range(n): for j in range(n):
TestLoopBody_intoTrain ==
    /\ pc = "test_loop"
    /\ i < n
    /\ LET r == RowIndex(i, j, n) IN
        /\ test_x' = [test_x EXCEPT ![r] = AssignRow(@, i, j, n)]
        /\ train_x' = [train_x EXCEPT ![r] = AssignRow(@, i, j, n)]
    /\ IF j + 1 < n
         THEN j' = j + 1 /\ i' = i
         ELSE j' = 0 /\ i' = i + 1
    /\ UNCHANGED <<pc, n, train_y, writes, test_y_actual, modeVars, trainVars,
                   observed_pred, point, log_outputscale, evalVars>>

TestLoopBody ==
    /\ pc = "test_loop"
    /\ i < n
    /\ LET r == RowIndex(i, j, n) IN
        test_x' = [test_x EXCEPT ![r] = AssignRow(@, i, j, n)]
    /\ IF j + 1 < n
         THEN j' = j + 1 /\ i' = i
         ELSE j' = 0 /\ i' = i + 1
    /\ UNCHANGED <<pc, n, dataVars, test_y_actual, modeVars, trainVars,
                   observed_pred, point, log_outputscale, evalVars>>

\* loop exit; observed_pred = likelihood(model(test_x))
Predict ==
    /\ pc = "test_loop"
    /\ i >= n
    /\ \E e \in (0 - MaxErr)..MaxErr :
          observed_pred' = <<[params |-> steps, model_mode |-> model_mode,
                              lik_mode |-> lik_mode, toeplitz |-> toeplitz,
                              mean |-> PredMean(test_x, e)]>>
    /\ pc' = "pred_labels"
    /\ UNCHANGED <<loopVars, dataVars, testVars, modeVars, trainVars, point,
                   log_outputscale, evalVars>>

\* pred_labels = observed_pred.mean().view(n, n).data.cpu().numpy()
PredLabels ==
    /\ pc = "pred_labels"
    /\ pred_labels' = View(observed_pred[1].mean, n)
    /\ pc' = "test_targets"
    /\ UNCHANGED <<loopVars, dataVars, testVars, modeVars, trainVars, observed_pred,
                   point, log_outputscale, delta_y>>

\* test_y_actual = ((torch.sin(...) + torch.cos(...)) * (2 * math.pi))
TestTargets ==
    /\ pc = "test_targets"
    /\ test_y_actual' = [r \in DOMAIN test_x |-> TestTarget(test_x[r])]
    /\ pc' = "test_reshape"
    /\ UNCHANGED <<loopVars, dataVars, test_x, modeVars, trainVars, observed_pred,
                   point, log_outputscale, evalVars>>

\* test_y_actual = test_y_actual.cpu().numpy().reshape(n, n)
TestReshape ==
    /\ pc = "test_reshape"
    /\ test_y_actual' = Reshape(test_y_actual, n)
    /\ pc' = "delta_y"
    /\ UNCHANGED <<loopVars, dataVars, test_x, modeVars, trainVars, observed_pred,
                   point, log_outputscale, evalVars>>

\* delta_y = numpy.absolute(pred_labels - test_y_actual)
DeltaY ==
    /\ pc = "delta_y"
    /\ delta_y' = AbsDiff(pred_labels, test_y_actual)
    /\ pc' = "eval_done"
    /\ UNCHANGED <<loopVars, dataVars, testVars, modeVars, trainVars, observed_pred,
                   point, log_outputscale, pred_labels>>

Next ==
    \/ DataAlloc
    \/ DataLoopBody
    \/ DataTargets
    \/ ModelInit
    \/ TrainMode
    \/ MakeOptimizer
    \/ WithEnter
    \/ LoopTest
    \/ ZeroGrad
    \/ Forward
    \/ Loss
    \/ Backward
    \/ PrintLine
    \/ Step
    \/ Raises
    \/ EvalMode
    \/ TestAlloc
    \/ TestLoopBody
    \/ Predict
    \/ PredLabels
    \/ TestTargets
    \/ TestReshape
    \/ DeltaY

Spec == Init /\ [][Next]_vars

----------------------------------------------------------------------------
\* The loop bodies and the target expression on the notebook's own grids,
\* one grid point at a time.

\* the data cell at (a, b): the row its body assigns in torch.zeros(n*n, 2)
\* with n = 100, and that row's entry of train_y
GridDataPoint ==
    /\ point.cell = "none"
    /\ \E a \in 0..(TrainN - 1) : \E b \in 0..(TrainN - 1) :
          LET row == AssignRow(zeros(1, 2)[0], a, b, TrainN) IN
          point' = [cell |-> "data", i |-> a, j |-> b,
                    idx |-> RowIndex(a, b, TrainN), x |-> row, y |-> Target(row)]
    /\ UNCHANGED runVars

\* the evaluation cell at (a, b): the row its body assigns with n = 10,
\* and that row's entry of test_y_actual
GridEvalPoint ==
    /\ point.cell = "none"
    /\ \E a \in 0..(TestN - 1) : \E b \in 0..(TestN - 1) :
          LET row == AssignRow(zeros(1, 2)[0], a, b, TestN) IN
          point' = [cell |-> "eval", i |-> a, j |-> b,
                    idx |-> RowIndex(a, b, TestN), x |-> row, y |-> TestTarget(row)]
    /\ UNCHANGED runVars

GridNext == GridDataPoint \/ GridEvalPoint

GridSpec == Init /\ [][GridNext]_vars

----------------------------------------------------------------------------
\* Phases of the run

\* the data loops have finished
DataLoopsDone == pc # "data_alloc" /\ ~(pc = "data_loop" /\ i < n)

\* the data cell has built train_x and train_y
TargetsBuilt == pc \notin {"data_alloc", "data_loop"}

\* statements of the training cell after model.train(); likelihood.train()
TrainLoopPcs == {"optimizer", "with_enter", "loop_test", "zero_grad", "forward",
                 "loss", "backward", "print", "step"}

\* the training loop was left through its range test
LoopLeft == pc \in {"eval_mode", "test_alloc", "test_loop", "pred_labels", "test_targets",
                    "test_reshape", "delta_y", "eval_done"}

\* the stored coordinate q is the number a / b
IsRatio(q, a, b) == q[1] * b = a * q[2]

----------------------------------------------------------------------------
TargetsAsDocumented ==
    point.cell = "data" => point.y = Documented(point.x)

\* C3 as stated: no test point equals any training input point.
TestGridHeldOut ==
    point.cell = "eval" =>
        \A a \in 0..(TrainN - 1) : \A b \in 0..(TrainN - 1) :
            point.x # AssignRow(zeros(1, 2)[0], a, b, TrainN)

\* C3 as amended: every test point (i/9, j/9) is the training input point
\* (11i/99, 11j/99), row 11i*100 + 11j of train_x.
TestGridInsideTrainGrid ==
    point.cell = "eval" =>
        LET ratio == (TrainN - 1) \div (TestN - 1) IN
        /\ ratio * point.i \in 0..(TrainN - 1)
        /\ ratio * point.j \in 0..(TrainN - 1)
        /\ point.x = AssignRow(zeros(1, 2)[0], ratio * point.i, ratio * point.j, TrainN)

InteriorTestPoint ==
    /\ point.cell = "eval" /\ point.i = 1 /\ point.j = 2
    /\ IsRatio(point.x[0], 1, TestN - 1)
    /\ IsRatio(point.x[1], 2, TestN - 1)

\* C4: after the data loops train_x has n*n rows, row i*n+j holds
\* (i/(n-1), j/(n-1)), every row was assigned exactly once, and each
\* column takes n values from 0 to 1.
TrainGridComplete ==
    DataLoopsDone =>
        /\ DOMAIN train_x = 0..(RunTrainN * RunTrainN - 1)
        /\ \A a \in 0..(RunTrainN - 1) : \A b \in 0..(RunTrainN - 1) :
              /\ IsRatio(train_x[a * RunTrainN + b][0], a, RunTrainN - 1)
              /\ IsRatio(train_x[a * RunTrainN + b][1], b, RunTrainN - 1)
        /\ \A r \in DOMAIN train_x : writes[r] = 1
        /\ \A c \in 0..1 :
              LET vals == {train_x[r][c] : r \in DOMAIN train_x} IN
              /\ Cardinality(vals) = RunTrainN
              /\ \E q \in vals : IsRatio(q, 0, 1)
              /\ \E q \in vals : IsRatio(q, 1, 1)
              /\ \A q \in vals : 0 <= q[1] /\ q[1] <= q[2]

TrainGridWritten == DataLoopsDone /\ pc = "data_loop" /\ writes[RunTrainN * RunTrainN - 1] = 1

\* C5: train_y has one entry per row of train_x, entry r computed from
\* row r, and train_x and test_x both have 2 columns.
MatchingDimensions ==
    /\ TargetsBuilt =>
          /\ DOMAIN train_y = DOMAIN train_x
          /\ Cardinality(DOMAIN train_y) = RunTrainN * RunTrainN
          /\ \A r \in DOMAIN train_x :
                DOMAIN train_x[r] = {0, 1} /\ train_y[r] = Target(train_x[r])
    /\ \A t \in DOMAIN test_x : DOMAIN test_x[t] = {0, 1}

BothTensorsBuilt ==
    /\ pc = "eval_done"
    /\ Cardinality(DOMAIN test_x) = RunTestN * RunTestN
    /\ Cardinality(DOMAIN train_y) = RunTrainN * RunTrainN

\* C6: a run in which no call raises leaves the loop after exactly
\* num_iter optimizer steps and num_iter printed lines, labelled
\* 'Iter k/num_iter' for k = 1, 2, ... in order, one line and one step
\* per iteration.
TrainingRunsNumIter ==
    /\ Len(printed) <= num_iter
    /\ steps <= Len(printed) /\ Len(printed) <= steps + 1
    /\ \A k \in 1..Len(printed) : printed[k].iter = k /\ printed[k].total = num_iter
    /\ LoopLeft => steps = num_iter /\ Len(printed) = num_iter

LoopJustLeft == pc = "eval_mode" /\ steps = num_iter /\ Len(raised) = 0

\* C7: a call that raises in iteration k ends the run there: control is
\* at no statement of the notebook, the call was made once, it is the last
\* call made, no later iteration started, and the parameters are those
\* after the k-1 completed steps.
NoRetryOnRaise ==
    Len(raised) = 1 =>
        LET k == raised[1].iter
            c == raised[1].call
        IN /\ pc = "raised"
           /\ c \in Raising
           /\ steps = k - 1 /\ Len(step_grads) = k - 1 /\ i = k - 1
           /\ calls[Len(calls)] = <<k, c>>
           /\ Cardinality({x \in DOMAIN calls : calls[x] = <<k, c>>}) = 1
           /\ \A x \in DOMAIN calls : calls[x][1] <= k
           /\ Len(observed_pred) = 0

BackwardRaisedInSeventh ==
    Len(raised) = 1 /\ raised[1].iter = 7 /\ raised[1].call = "backward"

\* C8: once the data cell has built train_x and train_y, no statement
\* changes either.
TrainingDataFrozen ==
    [][TargetsBuilt => (train_x' = train_x /\ train_y' = train_y)]_vars

TrainedAndEvaluated ==
    /\ pc = "eval_done" /\ steps = num_iter
    /\ Cardinality(DOMAIN test_y_actual) = RunTestN

\* C9: every iteration calls zero_grad, forward, loss, backward, print,
\* step in this order; the gradient buffers are empty when backward runs,
\* and the k-th step consumes the gradient of the k-th backward pass only.
OrderedIterationFreshGradient ==
    LET order == <<"zero_grad", "forward", "loss", "backward", "print", "step">> IN
    /\ \A x \in 1..Len(calls) :
          calls[x] = <<((x - 1) \div 6) + 1, order[((x - 1) % 6) + 1]>>
    /\ pc = "backward" => grad = {}
    /\ \A k \in 1..Len(step_grads) : step_grads[k] = {k}

AllStepsTaken == Len(step_grads) = num_iter /\ Len(calls) = 6 * num_iter

\* C10: model and likelihood are in train mode from model.train();
\* likelihood.train() through the whole loop, both are in eval mode when
\* the prediction is computed, and no optimizer step follows the switch
\* to eval mode.
ModeSwitchesBracketPhases ==
    /\ [](/\ pc \in TrainLoopPcs => model_mode = "train" /\ lik_mode = "train"
          /\ (pc = "test_loop" /\ i >= n) => model_mode = "eval" /\ lik_mode = "eval"
          /\ Len(observed_pred) = 1 =>
                observed_pred[1].model_mode = "eval" /\ observed_pred[1].lik_mode = "eval")
    /\ [][(model_mode = "eval" \/ lik_mode = "eval") => steps' = steps]_vars

PredictedAfterTraining ==
    Len(observed_pred) = 1 /\ steps = num_iter /\ observed_pred[1].params = num_iter

\* C11: delta_y is n x n, never negative, and its entry (a, b) is the
\* absolute difference of pred_labels[a][b] and test_y_actual[a][b], which
\* are the predicted mean and the true value of the same test point, row
\* a*n + b of test_x.
ErrorSurfaceAligned ==
    pc = "eval_done" =>
        /\ DOMAIN delta_y = 0..(RunTestN - 1)
        /\ \A a \in 0..(RunTestN - 1) :
              /\ DOMAIN delta_y[a] = 0..(RunTestN - 1)
              /\ \A b \in 0..(RunTestN - 1) :
                    LET r == a * RunTestN + b
                        d == pred_labels[a][b] - test_y_actual[a][b]
                    IN /\ IsRatio(test_x[r][0], a, RunTestN - 1)
                       /\ IsRatio(test_x[r][1], b, RunTestN - 1)
                       /\ pred_labels[a][b] = observed_pred[1].mean[r]
                       /\ test_y_actual[a][b] = TestTarget(test_x[r])
                       /\ delta_y[a][b] >= 0
                       /\ delta_y[a][b] \in {d, 0 - d}
                       /\ Abs(observed_pred[1].mean[r] - TestTarget(test_x[r])) = delta_y[a][b]

ErrorSurfaceBothSigns ==
    /\ pc = "eval_done"
    /\ pred_labels[0][0] > test_y_actual[0][0]
    /\ pred_labels[0][1] < test_y_actual[0][1]
    /\ delta_y[0][1] = MaxErr

\* C12: the reference value of a test point is computed by the expression
\* that computes a training target: at every grid point the two expressions
\* give the same value, so the test point (i/9, j/9) gets the training
\* target of the training point (11i/99, 11j/99) it coincides with.
ReferenceUsesTrainingFormula ==
    /\ point.cell = "data" => TestTarget(point.x) = point.y
    /\ point.cell = "eval" =>
          LET ratio == (TrainN - 1) \div (TestN - 1)
              trained == AssignRow(zeros(1, 2)[0], ratio * point.i, ratio * point.j, TrainN)
          IN /\ trained = point.x
             /\ point.y = Target(trained)

CoincidingTestPoint ==
    /\ point.cell = "eval" /\ point.i = 3 /\ point.j = 5
    /\ point.x = AssignRow(zeros(1, 2)[0], 33, 55, TrainN)
    /\ point.y = Target(point.x)
    /\ point.y # Documented(point.x)

\* C13: forward(x) returns the constant mean of x and the additive
\* grid-interpolation kernel of x (RBF base, 2 components) scaled by
\* exp(log_outputscale); log_outputscale starts at 0, so before any
\* optimizer step the factor is exactly 1 and the covariance is the
\* unscaled kernel output; forward changes no parameter.
ForwardComposesScaledKernel ==
    [][pc = "forward" =>
          /\ log_outputscale' = log_outputscale
          /\ steps' = steps
          /\ grad' = grad
          /\ pc' = "loss" =>
                LET dist == output'[1].dist IN
                /\ dist.mean.module = "ConstantMean"
                /\ dist.mean.x = train_x
                /\ dist.covar.module = "AdditiveGridInterpolationKernel"
                /\ dist.covar.base = "RBFKernel"
                /\ dist.covar.n_components = 2
                /\ dist.covar.x = train_x
                /\ dist.covar.scale = Exp(log_outputscale)
                /\ steps = 0 =>
                      /\ log_outputscale = 0
                      /\ Exp(log_outputscale) = Scale
                      /\ dist.covar = covar_module(train_x)]_vars

FirstForwardUnscaled ==
    /\ pc = "loss" /\ steps = 0
    /\ Len(output) = 1
    /\ output[1].dist.covar.scale = Scale
    /\ Cardinality(DOMAIN output[1].dist.covar.x) = RunTrainN * RunTrainN

\* C14: the loss printed at iteration k is the loss of the parameters after
\* k-1 optimizer steps; in every iteration the print comes before the
\* step, and no output or loss is ever computed from the parameters the
\* last step produces.
PrintedLossIsPreStep ==
    /\ \A k \in DOMAIN printed :
          /\ printed[k].iter = k
          /\ printed[k].loss = NegMll([params |-> k - 1])
    /\ pc = "print" =>
          /\ Len(output) = 1
          /\ output[1].params = steps
          /\ loss = NegMll(output[1])
          /\ Len(printed) = steps
          /\ i = steps
    /\ steps <= Len(printed)
    /\ \A p \in DOMAIN calls : \A q \in DOMAIN calls :
          (calls[p][2] = "print" /\ calls[q][2] = "step" /\ calls[p][1] = calls[q][1])
              => p < q
    /\ Len(output) = 1 => output[1].params < num_iter
    /\ steps = num_iter =>
          /\ Len(printed) = num_iter
          /\ calls[Len(calls)] = <<num_iter, "step">>
          /\ loss = NegMll([params |-> num_iter - 1])
          /\ output[1].params = num_iter - 1

FinalParametersNeverScored ==
    /\ pc = "eval_done"
    /\ steps = num_iter
    /\ output[1].params = num_iter - 1
    /\ printed[num_iter].loss = RecordedLoss[num_iter]
    /\ loss = printed[num_iter].loss

\* C15: every coordinate of train_x (i/99) and of test_x (i/9) lies in the
\* closed interval of grid_bounds, [0, 1]; index 0 gives exactly the lower
\* bound, the last index exactly the upper bound, and the indices between
\* give values strictly inside.
CoordinatesWithinGridBounds ==
    point.cell \in {"data", "eval"} =>
        LET m == IF point.cell = "data" THEN TrainN ELSE TestN
            lo == grid_bounds[1]
            hi == grid_bounds[2]
        IN \A c \in 0..1 :
              LET q == point.x[c]
                  k == IF c = 0 THEN point.i ELSE point.j
              IN /\ q[2] > 0
                 /\ IsRatio(q, k, m - 1)
                 /\ lo * q[2] <= q[1]
                 /\ q[1] <= hi * q[2]
                 /\ k = 0 => q[1] = lo * q[2]
                 /\ k = m - 1 => q[1] = hi * q[2]
                 /\ (0 < k /\ k < m - 1) => (lo * q[2] < q[1] /\ q[1] < hi * q[2])

CornerOfTrainGrid ==
    /\ point.cell = "data" /\ point.i = TrainN - 1 /\ point.j = 0
    /\ point.x[0][1] = grid_bounds[2] * point.x[0][2]
    /\ point.x[1][1] = grid_bounds[1] * point.x[1][2]

\* C16: use_toeplitz(False) is in force exactly during the training loop:
\* the optimizer and the marginal log likelihood are constructed before it
\* is entered, every forward pass, loss, backward pass and step of the 20
\* iterations runs with the setting off, and the prediction on test_x is
\* computed after the block is left, under the default setting.
ToeplitzOffCoversLoopOnly ==
    /\ [](/\ pc \in {"model_init", "train_mode", "optimizer", "with_enter"} =>
                toeplitz = "default" /\ Len(calls) = 0
          /\ pc \in {"loop_test"} \cup {LoopBody[k] : k \in DOMAIN LoopBody} =>
                toeplitz = "off"
          /\ Len(output) = 1 => output[1].toeplitz = "off"
          /\ (LoopLeft \/ pc = "raised") => toeplitz = "default"
          /\ Len(observed_pred) = 1 =>
                /\ observed_pred[1].toeplitz = "default"
                /\ observed_pred[1].toeplitz # output[1].toeplitz
                /\ Len(calls) = Len(LoopBody) * num_iter)
    /\ [][Len(calls') > Len(calls) => toeplitz = "off"]_vars

PredictedOutsideBlock ==
    /\ pc = "pred_labels"
    /\ Len(observed_pred) = 1
    /\ observed_pred[1].toeplitz = "default"
    /\ output[1].toeplitz = "off"
    /\ output[1].params = num_iter - 1

====
